---- MODULE Spec2Model ----
(***************************************************************************)
(* A model of JKalFilter: the Matrix type (matrix.py), the layered strip   *)
(* detector (detector.py), line tracks (track.py), the linear and the      *)
(* bidirectional Kalman filter (kfilter.py) and the fit manager            *)
(* (fitter.py).                                                            *)
(*                                                                         *)
(* Numbers.  The program computes with Python floats.  Here a real r is    *)
(* the integer r * Scale (fixed point); products and quotients are         *)
(* rescaled where the program multiplies and divides.  A Matrix value is   *)
(* the sequence of its rows.  Python's None is the empty sequence where a  *)
(* measurement is expected and NoCounter where the counter is expected.    *)
(***************************************************************************)
EXTENDS Integers, Sequences, FiniteSets, TLC

\* ------------------------------------------------------------------ bounds
Scale == 1000           \* fixed-point units per 1.0
NumLayers == 4          \* num_layers of the LayeredDetector
NumStrips == 3          \* num_strips of every Layer
MaxTracks == 2          \* propagate_track calls before the fit
MaxHits == 1            \* direct Layer.hit calls before the fit
MaxMeas == 3            \* longest measurement list given to add_meas
MaxDim == 2             \* largest dimension asked of Matrix.zero / identity

\* ------------------------------------------------------------ fixed point
None == <<>>
NoCounter == -1

Mul(a, b) == (a * b) \div Scale
Div(a, b) == (a * Scale) \div b

Abs(v) == IF v < 0 THEN 0 - v ELSE v

RECURSIVE SumTo(_, _)
\* sum(f[1..n]), as Python's sum over a generator
SumTo(f, n) == IF n = 0 THEN 0 ELSE SumTo(f, n - 1) + f[n]

\* a list without its last element, and that element (list.pop, deque.pop)
Front(s) == SubSeq(s, 1, Len(s) - 1)
Last(s) == s[Len(s)]

RECURSIVE List(_, _)
\* the list [f[1], ..., f[n]], built element by element (empty for n < 1, as
\* a comprehension over range(n) is)
List(f, n) == IF n <= 0 THEN <<>> ELSE Append(List(f, n - 1), f[n])

\* ----------------------------------------------------------------- Matrix
Dimx(m) == Len(m)
Dimy(m) == IF Len(m) = 0 THEN 0 ELSE Len(m[1])
Size(m) == <<Dimx(m), Dimy(m)>>

\* Matrix.zero / Matrix.identity for dimensions >= 1
Zero(dimx, dimy) == List([i \in 1..dimx |-> List([j \in 1..dimy |-> 0], dimy)], dimx)
Identity(dim) ==
    List([i \in 1..dim |-> List([j \in 1..dim |-> IF i = j THEN Scale ELSE 0], dim)], dim)

\* Matrix._transpose
Transpose(m) ==
    List([x \in 1..Dimy(m) |-> List([y \in 1..Dimx(m) |-> m[y][x]], Dimx(m))], Dimy(m))

\* Matrix.__add__, __sub__, __mul__ on matrices of compatible shapes
MatAdd(a, b) ==
    List([x \in 1..Dimx(a) |-> List([y \in 1..Dimy(a) |-> a[x][y] + b[x][y]], Dimy(a))], Dimx(a))
MatSub(a, b) ==
    List([x \in 1..Dimx(a) |-> List([y \in 1..Dimy(a) |-> a[x][y] - b[x][y]], Dimy(a))], Dimx(a))
MatMul(a, b) ==
    LET bt == Transpose(b)
        func(row, col) == SumTo([k \in 1..Len(row) |-> Mul(row[k], col[k])], Len(row))
    IN  List([x \in 1..Dimx(a) |-> List([y \in 1..Len(bt) |-> func(a[x], bt[y])], Len(bt))],
             Dimx(a))

\* what a zero pivot is replaced by in LU (1e-20): the smallest positive value
PivotEps == 1

\* One column i of the Crout decomposition: column i of L, then row i of U.
LUColumn(m, LU0, i) ==
    LET dim == Dimx(m)
        L0 == LU0[1]
        U0 == LU0[2]
        Lcol == List([j \in 1..dim |->
                    IF j < i THEN L0[j][i]
                    ELSE m[j][i] - SumTo([k \in 1..(i - 1) |-> Mul(L0[j][k], U0[k][i])], i - 1)],
                     dim)
        piv == IF Lcol[i] = 0 THEN PivotEps ELSE Lcol[i]
        L1 == List([j \in 1..dim |-> List([c \in 1..dim |->
                    IF c = i THEN (IF j = i THEN piv ELSE Lcol[j]) ELSE L0[j][c]], dim)], dim)
        U1 == List([r \in 1..dim |-> List([j \in 1..dim |->
                    IF r = i /\ j >= i
                    THEN Div(m[i][j] - SumTo([k \in 1..(i - 1) |-> Mul(L1[i][k], U0[k][j])], i - 1),
                             L1[i][i])
                    ELSE U0[r][j]], dim)], dim)
    IN  <<L1, U1>>

RECURSIVE LUUpTo(_, _)
LUUpTo(m, i) ==
    IF i = 0 THEN <<Zero(Dimx(m), Dimx(m)), Identity(Dimx(m))>>
    ELSE LUColumn(m, LUUpTo(m, i - 1), i)

\* Matrix.LU of a square matrix: <<L, U>>, U with a unit diagonal
LU(m) == LUUpTo(m, Dimx(m))

RECURSIVE ColY(_, _, _)
\* forward elimination L y = e_i: entries 1..j of y
ColY(L, i, j) ==
    IF j < i THEN List([k \in 1..j |-> 0], j)
    ELSE IF j = i THEN List([k \in 1..j |-> IF k = i THEN Div(Scale, L[i][i]) ELSE 0], j)
    ELSE LET y == ColY(L, i, j - 1)
             rest == SumTo([k \in 1..(j - i) |-> Mul(L[j][i + k - 1], y[i + k - 1])], j - i)
         IN  List([k \in 1..j |-> IF k = j THEN Div(0 - rest, L[j][j]) ELSE y[k]], j)

RECURSIVE ColX(_, _, _)
\* back substitution U x = y: entries j..dim of x (the others 0)
ColX(U, y, j) ==
    LET dim == Len(y)
    IN  IF j > dim THEN List([k \in 1..dim |-> 0], dim)
        ELSE LET x == ColX(U, y, j + 1)
                 rest == SumTo([k \in 1..(dim - j + 1) |-> Mul(U[j][j + k - 1], x[j + k - 1])],
                               dim - j + 1)
             IN  List([k \in 1..dim |-> IF k = j THEN Div(y[j] - rest, U[j][j]) ELSE x[k]], dim)

\* Matrix.LUInvert: the inverse assembled column by column
LUInvert(L, U) ==
    LET dim == Dimx(L)
        col(i) == ColX(U, ColY(L, i, dim), 1)
        cols == List([i \in 1..dim |-> col(i)], dim)
    IN  List([j \in 1..dim |-> List([i \in 1..dim |-> cols[i][j]], dim)], dim)

\* Matrix._inverse (Matrix.I of a matrix whose cache is empty)
Inverse(m) == LET lu == LU(m) IN LUInvert(lu[1], lu[2])

\* Matrix.I of a square matrix whose cache is empty: LUInvert divides by the
\* diagonal of U, which holds a 0 where LU replaced a zero pivot; the
\* ZeroDivisionError is caught and None returned
MatI(m) ==
    LET lu == LU(m)
    IN  IF \E j \in 1..Dimx(m) : lu[2][j][j] = 0 THEN None ELSE LUInvert(lu[1], lu[2])

\* --------------------------------------------------- Matrix as an object
\* Matrix(value) for a list of rows that has a first row: the value, the
\* dimensions read off it, and the empty caches of T and I
NewMatrix(value) ==
    [value |-> value, dimx |-> Len(value), dimy |-> Len(value[1]), T |-> None, I |-> None]

\* Matrix(): the value [[]] with both dimensions 0
EmptyMatrix == [value |-> <<<<>>>>, dimx |-> 0, dimy |-> 0, T |-> None, I |-> None]

\* what a constructor, classmethod or operator call comes to
Raise(error) == [error |-> error, result |-> None]
Return(m) == [error |-> "none", result |-> m]

\* Matrix(rows) on rows an operator has computed: len(value[0]) needs a row
Construct(rows) == IF Len(rows) = 0 THEN Raise("IndexError") ELSE Return(NewMatrix(rows))

\* ZeroFails, but only when both dimensions are too small
ZeroFailsBoth(dimx, dimy) == dimx < 1 /\ dimy < 1

\* the check of Matrix.zero
ZeroFails(dimx, dimy) == dimx < 1 \/ dimy < 1

\* Matrix.zero and Matrix.identity as called, with any integers
ZeroOp(dimx, dimy) ==
    IF ZeroFails(dimx, dimy) THEN Raise("ValueError") ELSE Construct(Zero(dimx, dimy))
IdentityOp(dim) ==
    IF dim < 1 THEN Raise("ValueError")
    ELSE IF ZeroOp(dim, dim).error # "none" THEN ZeroOp(dim, dim)
    ELSE Return(NewMatrix(Identity(dim)))

\* the rows a + b and a - b are built from: one per range(dimx)
SumRows(a, b, sign) ==
    List([x \in 1..a.dimx |->
            List([y \in 1..a.dimy |-> a.value[x][y] + sign * b.value[x][y]], a.dimy)], a.dimx)


\* self.size() != other.size()
SizesDiffer(a, b) == <<a.dimx, a.dimy>> # <<b.dimx, b.dimy>>

\* SubOp, adding instead
SubOpAdds(a, b) == IF SizesDiffer(a, b) THEN Raise("ValueError") ELSE Construct(SumRows(a, b, 1))

\* Matrix.__add__, __sub__
AddOp(a, b) == IF SizesDiffer(a, b) THEN Raise("ValueError") ELSE Construct(SumRows(a, b, 1))
SubOp(a, b) == IF SizesDiffer(a, b) THEN Raise("ValueError") ELSE Construct(SumRows(a, b, 0 - 1))

\* other.T inside __mul__: the rows of the transpose, one per range(dimy)
TransposeOp(m) ==
    Construct(List([x \in 1..m.dimy |-> List([y \in 1..m.dimx |-> m.value[y][x]], m.dimx)],
                   m.dimy))

\* Matrix.__mul__
MulOp(a, b) ==
    IF a.dimy # b.dimx THEN Raise("ValueError")
    ELSE IF TransposeOp(b).error # "none" THEN TransposeOp(b)
    ELSE LET bt == TransposeOp(b).result.value
             func(row, col) == SumTo([k \in 1..Len(row) |-> Mul(row[k], col[k])], Len(row))
         IN  Construct(List([x \in 1..Len(a.value) |->
                                List([y \in 1..Len(bt) |-> func(a.value[x], bt[y])], Len(bt))],
                            Len(a.value)))

\* Matrix.__eq__: the lists of rows compared
MatEq(a, b) == a.value = b.value

\* Uncache, forgetting to
UncacheNot(m) == m

\* the getter of Matrix.value, which every read or write of an element goes
\* through (__getitem__): both caches are emptied
Uncache(m) == [m EXCEPT !.T = None, !.I = None]

\* the last operation on matrices; old: the caches an element write found
NoOut == [op |-> "none", error |-> "none", result |-> None, a |-> EmptyMatrix, b |-> EmptyMatrix,
          args |-> <<>>, old |-> [T |-> None, I |-> None], eq |-> FALSE]

\* --------------------------------------------------------------- detector
\* LayeredDetector(x, y, height, length, num_layers, num_strips) of the model
DetX == 1 * Scale
DetY == 0
Height == 36 * Scale
Length == (NumLayers - 1) * Scale

Layers == 1..NumLayers
Strips == 1..NumStrips

\* LayeredDetector.__init__ / x_step, for num_layers > 1
XStep == Length \div (NumLayers - 1)
LayerX(l) == DetX + (l - 1) * XStep

\* Layer.__init__: bottom, top, strip_height and the strips' y (i from 0)
Bottom == DetY - Mul(Height, Scale \div 2)
Top == Bottom + Height
StripHeight == (Top - Bottom) \div NumStrips
StripY(s) == Bottom + Mul((s - 1) * Scale + Scale \div 2, StripHeight)

\* A float difference is rounded to the precision of its own magnitude, which
\* is coarser than that of smaller operands.  One unit of the model is the
\* precision of the values in [16, 32); a difference in [32, 64) has half
\* that precision and is rounded to the nearest even unit, a tie to the one
\* whose half is even (round half to even).
FloatSub(a, b) ==
    LET d == a - b
    IN  IF Abs(d) < 32 * Scale \/ d % 2 = 0 THEN d
        ELSE IF (d + 1) % 4 = 0 THEN d + 1 ELSE d - 1

\* num_strip of Layer.hit for a y that passed the range check, counted from 1;
\* self.strips holds strips 1..NumStrips
NumStrip(y) == (Div(FloatSub(y, Bottom), StripHeight) \div Scale) + 1

\* LineTrack.get_yintercept
YIntercept(t, x) == Mul(t.a, x) + t.b

\* the tracks propagate_track is called with
Tracks == { [a |-> 0, b |-> 0],
            [a |-> 0, b |-> 12 * Scale],
            [a |-> 18 * Scale, b |-> 0 - 30 * Scale],
            [a |-> 6 * Scale, b |-> 0 - 6 * Scale],
            [a |-> 0 - 6 * Scale, b |-> 24 * Scale],
            [a |-> 24 * Scale, b |-> 0 - 84 * Scale] }

\* the tracks of the detector on its own: those, and one just below the top
DetTracks == Tracks \cup { [a |-> 0, b |-> Top - 1] }

\* the y values Layer.hit is called with directly
HitYs == { Bottom, Top, Top - 1, 0 - 1, 12 * Scale }

\* --------------------------------------------------------------- LKFilter
\* The matrices every filter of the model is constructed with (the prototype
\* of test_fitting.py): H observes y, A moves y by slope * x_step.
KalH == <<<<Scale, 0>>>>
KalA == <<<<Scale, XStep>>, <<0, Scale>>>>
KalQ == <<<<1, 0>>, <<0, 1>>>>
KalR == <<<<3 * Scale>>>>
KalX0 == <<<<0>>, <<0>>>>
KalP0 == <<<<100 * Scale, 0>>, <<0, 100 * Scale>>>>

\* LKFilter.__init__ / TwoWayLKFilter.__init__
NewFilter(kind, A, x, P) ==
    [kind |-> kind, A |-> A, x |-> x, P |-> P,
     has_meas |-> FALSE, measurements |-> <<>>, counter |-> NoCounter,
     reverse_measurements |-> <<>>, rev |-> FALSE,
     born |-> 0,      \* bookkeeping: the layer _new_filters made it on
     nrev |-> 0]      \* bookkeeping: calls of reverse so far

\* the check at the head of LKFilter.update
WrongShape(f, measurement) == Size(measurement) # Size(MatMul(KalH, f.x))

\* LKFilter.update
Update(f, measurement) ==
    LET y == MatSub(measurement, MatMul(KalH, f.x))
        S == MatAdd(MatMul(MatMul(KalH, f.P), Transpose(KalH)), KalR)
        K == MatMul(MatMul(f.P, Transpose(KalH)), Inverse(S))
    IN  [f EXCEPT !.x = MatAdd(f.x, MatMul(K, y)),
                  !.P = MatMul(MatSub(Identity(Dimx(f.x)), MatMul(K, KalH)), f.P)]

\* LKFilter.predict
Predict(f) ==
    [f EXCEPT !.x = MatMul(f.A, f.x),
              !.P = MatAdd(MatMul(MatMul(f.A, f.P), Transpose(f.A)), KalQ)]

\* Remember, but the first call records the measurement after the seed
RememberSeedToo(f, measurement, add) ==
    IF ~add THEN f
    ELSE IF f.has_meas THEN [f EXCEPT !.measurements = Append(@, measurement)]
    ELSE [f EXCEPT !.has_meas = TRUE, !.measurements = <<<<f.x[1]>>, measurement>>]

\* Remember, but a None measurement is not recorded
RememberSkipsNone(f, measurement, add) ==
    IF ~add \/ (f.has_meas /\ measurement = None) THEN f
    ELSE IF f.has_meas THEN [f EXCEPT !.measurements = Append(@, measurement)]
    ELSE [f EXCEPT !.has_meas = TRUE, !.measurements = <<<<f.x[1]>>>>]

\* the bookkeeping of LKFilter.step(measurement, add) before update/predict
Remember(f, measurement, add) ==
    IF ~add THEN f
    ELSE IF f.has_meas THEN [f EXCEPT !.measurements = Append(@, measurement)]
    ELSE [f EXCEPT !.has_meas = TRUE, !.measurements = <<<<f.x[1]>>>>]

\* LKFilter.step when update does not raise
Step(f, measurement, add) ==
    LET f1 == Remember(f, measurement, add)
        f2 == IF measurement # None THEN Update(f1, measurement) ELSE f1
        f3 == Predict(f2)
    IN  [f3 EXCEPT !.counter = IF @ = NoCounter THEN 0 ELSE @ + 1]

\* Reverse, flipping rev but keeping A
ReverseKeepsA(f) == [f EXCEPT !.rev = ~f.rev, !.nrev = @ + 1]

\* TwoWayLKFilter.reverse
Reverse(f) == [f EXCEPT !.A = Inverse(f.A), !.rev = ~f.rev, !.nrev = @ + 1]

\* LKNext, but popping the end of the list (pop() for pop(0))
LKNextPopsLast(f) ==
    IF Len(f.measurements) = 0 THEN [f |-> f, stop |-> TRUE, used |-> None]
    ELSE [f |-> Step([f EXCEPT !.measurements = SubSeq(@, 1, Len(@) - 1)],
                     f.measurements[Len(f.measurements)], FALSE),
          stop |-> FALSE, used |-> f.measurements[Len(f.measurements)]]

\* LKFilter.next: <<filter, state yielded or None when StopIteration is raised>>
LKNext(f) ==
    IF Len(f.measurements) = 0 THEN [f |-> f, stop |-> TRUE, used |-> None]
    ELSE [f |-> Step([f EXCEPT !.measurements = Tail(@)], Head(f.measurements), FALSE),
          stop |-> FALSE, used |-> Head(f.measurements)]

\* TwoWayNext, but without the reverse() after the buffers are exchanged
TwoWayNextNoReverse(f) ==
    IF Len(f.reverse_measurements) > 0
    THEN [f |-> Step([f EXCEPT !.reverse_measurements = Front(@)],
                     Last(f.reverse_measurements), FALSE),
          stop |-> FALSE, used |-> Last(f.reverse_measurements)]
    ELSE LET g == [f EXCEPT !.reverse_measurements = f.measurements,
                            !.measurements = f.reverse_measurements]
         IN  IF Len(g.reverse_measurements) = 0
             THEN [f |-> g, stop |-> TRUE, used |-> None]
             ELSE [f |-> Step([g EXCEPT !.reverse_measurements = Front(@)],
                              Last(g.reverse_measurements), FALSE),
                   stop |-> FALSE, used |-> Last(g.reverse_measurements)]

\* TwoWayLKFilter.next: pops the right end of reverse_measurements; when that
\* is empty exchanges the two buffers and either stops or reverses and resumes
TwoWayNext(f) ==
    IF Len(f.reverse_measurements) > 0
    THEN [f |-> Step([f EXCEPT !.reverse_measurements = Front(@)],
                     Last(f.reverse_measurements), FALSE),
          stop |-> FALSE, used |-> Last(f.reverse_measurements)]
    ELSE LET g == [f EXCEPT !.reverse_measurements = f.measurements,
                            !.measurements = f.reverse_measurements]
         IN  IF Len(g.reverse_measurements) = 0
             THEN [f |-> g, stop |-> TRUE, used |-> None]
             ELSE LET h == Reverse(g)
                  IN  [f |-> Step([h EXCEPT !.reverse_measurements = Front(@)],
                                  Last(h.reverse_measurements), FALSE),
                       stop |-> FALSE, used |-> Last(h.reverse_measurements)]

VARIABLES
    strip_hits,      \* strip_hits[l][s]: Strip.hits
    hit_strips,      \* hit_strips[l]: Layer.hit_strips, in insertion order
    layer_hits,      \* layer_hits[l]: Layer.hits
    det_hits,        \* LayeredDetector.hits
    filt,            \* FitManager.filt, the prototype
    fitters,         \* FitManager.fitters
    pc,              \* where the program is
    cur_layer,       \* fit: the layer being processed
    cur_fitter,      \* fit / propagate_tracks: index of the next fitter
    estimates,       \* propagate_tracks: the estimates of the current fitter
    current_x,       \* propagate_tracks: current_x
    result,          \* propagate_tracks: result
    kf,              \* a filter iterated on its own
    data,            \* the list handed to kf.add_meas
    given,           \* bookkeeping: what that list held when it was handed over
    yielded,         \* what iterating kf has yielded so far
    event,           \* the last operation and what it saw
    ntracks, nhits,  \* propagate_track / Layer.hit calls made
    mat,             \* a Matrix object whose T and I are read and whose value is written
    out,             \* the last Matrix operation and what it returned or raised
    heap,            \* the lists and deques filters refer to, by reference
    objs             \* filter objects that hold references: a prototype and its copies

detvars == <<strip_hits, hit_strips, layer_hits, det_hits>>
fitvars == <<filt, fitters, cur_layer, cur_fitter>>
propvars == <<estimates, current_x, result>>
itervars == <<kf, data, given, yielded>>
objvars == <<mat, out, heap, objs>>
vars == <<detvars, fitvars, propvars, itervars, pc, event, ntracks, nhits, objvars>>

NoEvent == [op |-> "none", layer |-> 0, strip |-> 0, fitter |-> 0, before |-> 0, n |-> 0,
            xok |-> TRUE, y |-> 0, track |-> [a |-> 0, b |-> 0], calls |-> <<>>,
            z |-> <<>>, add |-> FALSE, error |-> "none"]

\* ---------------------------------------------------------- Layer, detector
\* Detector.hit on the strip, then the hit_strips bookkeeping of Layer.hit
HitStrip(hs, s) == IF \E k \in 1..Len(hs) : hs[k] = s THEN hs ELSE Append(hs, s)

\* HitOutcome, with the range check ahead of the check of x
HitOutcomeRangeFirst(xok, y) ==
    IF y >= Top \/ y < Bottom THEN "dropped"
    ELSE IF ~xok THEN "RuntimeError"
    ELSE IF NumStrip(y) \in Strips THEN "hit"
    ELSE "IndexError"

\* how Layer.hit(x, y) ends; xok: x == self.x
HitOutcome(xok, y) ==
    IF ~xok THEN "RuntimeError"
    ELSE IF y >= Top \/ y < Bottom THEN "dropped"
    ELSE IF NumStrip(y) \in Strips THEN "hit"
    ELSE "IndexError"

\* Layer.hit(x, y) on layer l.  The counters of the layer and of the detector
\* are incremented before the strip is looked up.
LayerHit(l, xok, y) ==
    /\ pc = "setup" /\ nhits < MaxHits
    /\ nhits' = nhits + 1
    /\ LET how == HitOutcome(xok, y)
       IN  /\ event' = [NoEvent EXCEPT !.op = how, !.layer = l, !.xok = xok, !.y = y,
                                       !.before = strip_hits[l]]
           /\ IF how \in {"RuntimeError", "dropped"}
              THEN UNCHANGED detvars
              ELSE /\ det_hits' = det_hits + 1
                   /\ layer_hits' = [layer_hits EXCEPT ![l] = @ + 1]
                   /\ IF how = "hit"
                      THEN /\ strip_hits' = [strip_hits EXCEPT ![l][NumStrip(y)] = @ + 1]
                           /\ hit_strips' = [hit_strips EXCEPT ![l] = HitStrip(@, NumStrip(y))]
                      ELSE UNCHANGED <<strip_hits, hit_strips>>
    /\ UNCHANGED <<fitvars, propvars, itervars, pc, ntracks, objvars>>

\* LayeredDetector.propagate_track: Layer.hit on each layer in ascending x,
\* up to and including the first one that raises
PropagateTrack(t) ==
    LET y(l) == YIntercept(t, LayerX(l))
        inside(l) == ~(y(l) >= Top \/ y(l) < Bottom)
        ns(l) == NumStrip(y(l))
        raises(l) == inside(l) /\ ns(l) \notin Strips
        called(l) == \A k \in 1..(l - 1) : ~raises(k)
        counted(l) == called(l) /\ inside(l)
        found(l) == counted(l) /\ ~raises(l)
        nin == Cardinality({l \in Layers : counted(l)})
        ncalled == Cardinality({l \in Layers : called(l)})
    IN  /\ pc = "setup" /\ ntracks < MaxTracks
        /\ ntracks' = ntracks + 1
        /\ det_hits' = det_hits + nin
        /\ layer_hits' = [l \in Layers |-> IF counted(l) THEN layer_hits[l] + 1 ELSE layer_hits[l]]
        /\ strip_hits' = [l \in Layers |-> IF found(l)
                            THEN [strip_hits[l] EXCEPT ![ns(l)] = @ + 1] ELSE strip_hits[l]]
        /\ hit_strips' = [l \in Layers |-> IF found(l)
                            THEN HitStrip(hit_strips[l], ns(l)) ELSE hit_strips[l]]
        /\ event' = [NoEvent EXCEPT
                        !.op = IF \E l \in Layers : raises(l) THEN "IndexError" ELSE "track",
                        !.n = nin, !.track = t,
                        !.calls = List([l \in 1..ncalled |-> l], ncalled)]
        /\ UNCHANGED <<fitvars, propvars, itervars, pc, nhits, objvars>>

\* LayerClear, but the strips keep their counts
LayerClearKeepsStrips(sh, hs) == <<sh, <<>>, 0>>

\* Layer.clear_hits on the fields of one layer: <<strip hits, hit_strips, hits>>
LayerClear(sh, hs) ==
    <<[s \in Strips |-> IF \E k \in 1..Len(hs) : hs[k] = s THEN 0 ELSE sh[s]], <<>>, 0>>

\* LayeredDetector.clear_hits
ClearHits ==
    /\ pc \in {"setup", "done"}
    /\ strip_hits' = [l \in Layers |-> LayerClear(strip_hits[l], hit_strips[l])[1]]
    /\ hit_strips' = [l \in Layers |-> <<>>]
    /\ layer_hits' = [l \in Layers |-> 0]
    /\ det_hits' = 0
    /\ event' = [NoEvent EXCEPT !.op = "clear", !.before = det_hits]
    /\ UNCHANGED <<fitvars, propvars, itervars, pc, ntracks, nhits, objvars>>


\* ------------------------------------------------------------- FitManager
\* Repeat, but never more than once
RepeatOnce(x, n) == IF n = 0 THEN <<>> ELSE <<x>>

RECURSIVE Repeat(_, _)
Repeat(x, n) == IF n = 0 THEN <<>> ELSE <<x>> \o Repeat(x, n - 1)

\* Spawn, but the new candidate is also advanced on the layer it was made on
SpawnSteppedTwice(l, s) ==
    LET y == StripY(s)
        state == Transpose(<<<<y, Div(y, LayerX(l))>>>>)
        cov == <<<<10 * Scale, 0>>, <<0, 10 * Scale>>>>
    IN  Step(Step([filt EXCEPT !.x = state, !.P = cov, !.born = l], None, TRUE), None, TRUE)

\* what _new_filters makes of one hit: a copy of the prototype, seeded with
\* the strip's position and stepped once with add=True
Spawn(l, s) ==
    LET y == StripY(s)
        state == Transpose(<<<<y, Div(y, LayerX(l))>>>>)
        cov == <<<<10 * Scale, 0>>, <<0, 10 * Scale>>>>
    IN  Step([filt EXCEPT !.x = state, !.P = cov, !.born = l], None, TRUE)

RECURSIVE SpawnAllOnePerStrip(_, _, _)
\* SpawnAll, but one filter per hit strip whatever its hit count
SpawnAllOnePerStrip(l, hs, sh) ==
    IF Len(hs) = 0 THEN <<>>
    ELSE <<Spawn(l, Head(hs))>> \o SpawnAllOnePerStrip(l, Tail(hs), sh)

RECURSIVE SpawnAll(_, _, _)
\* the filters _new_filters appends for hit_strips hs with hit counts sh
SpawnAll(l, hs, sh) ==
    IF Len(hs) = 0 THEN <<>>
    ELSE Repeat(Spawn(l, Head(hs)), sh[Head(hs)]) \o SpawnAll(l, Tail(hs), sh)

\* min(layer.hit_strips, key=|predicted_y - strip y|): the first of the nearest
Nearest(hs, predicted_y) ==
    LET d(k) == Abs(predicted_y - StripY(hs[k]))
        best == CHOOSE k \in 1..Len(hs) :
                    /\ \A j \in 1..Len(hs) : d(k) <= d(j)
                    /\ \A j \in 1..(k - 1) : d(j) > d(k)
    IN  hs[best]

\* GateFails, with the comparison the wrong way round
GateFailsFlipped(measured_y, predicted_y, y_err) ==
    Mul(measured_y - predicted_y, measured_y - predicted_y) < 9 * y_err

\* the 3 sigma gate of fit: TRUE when the measurement is ignored
GateFails(measured_y, predicted_y, y_err) ==
    Mul(measured_y - predicted_y, measured_y - predicted_y) > 9 * y_err

\* Remove, but the strip stays in the list
RemoveKeeps(hs, s) == hs

\* list.remove
Remove(hs, s) ==
    LET k == CHOOSE k \in 1..Len(hs) : hs[k] = s /\ \A j \in 1..(k - 1) : hs[j] # s
    IN  SubSeq(hs, 1, k - 1) \o SubSeq(hs, k + 1, Len(hs))

\* FitManager._new_filters(layer l), as one step of fit
NewFilters(l) ==
    /\ fitters' = fitters \o SpawnAll(l, hit_strips[l], strip_hits[l])
    /\ strip_hits' = [strip_hits EXCEPT ![l] = LayerClear(@, hit_strips[l])[1]]
    /\ hit_strips' = [hit_strips EXCEPT ![l] = <<>>]
    /\ layer_hits' = [layer_hits EXCEPT ![l] = 0]
    /\ event' = [NoEvent EXCEPT !.op = "spawn", !.layer = l,
                                !.n = Len(SpawnAll(l, hit_strips[l], strip_hits[l])),
                                !.before = Len(fitters)]
    /\ UNCHANGED <<det_hits, filt>>

\* fit up to the loop over the remaining layers: the first (rightmost) layer
FitBegin ==
    /\ pc = "setup"
    /\ NewFilters(NumLayers)
    /\ cur_layer' = NumLayers - 1
    /\ cur_fitter' = 1
    /\ pc' = IF NumLayers > 1 THEN "fit" ELSE "select"
    /\ UNCHANGED <<propvars, itervars, ntracks, nhits, objvars>>

\* one pass of the loop over self.fitters, for the layer cur_layer
FitAssign ==
    /\ pc = "fit" /\ cur_fitter <= Len(fitters)
    /\ LET l == cur_layer
           fitter == fitters[cur_fitter]
           predicted_y == fitter.x[1][1]
           y_err == fitter.P[1][1]
           some == Len(hit_strips[l]) > 0
           strip == IF some THEN Nearest(hit_strips[l], predicted_y) ELSE 0
           measured_y == IF some THEN StripY(strip) ELSE 0
       IN  IF ~some \/ GateFails(measured_y, predicted_y, y_err)
           THEN /\ fitters' = [fitters EXCEPT ![cur_fitter] = Step(fitter, None, TRUE)]
                /\ event' = [NoEvent EXCEPT !.op = IF some THEN "gated" ELSE "nohits",
                                            !.layer = l, !.fitter = cur_fitter,
                                            !.n = Len(fitter.measurements)]
                /\ UNCHANGED <<strip_hits, hit_strips>>
           ELSE /\ fitters' = [fitters EXCEPT ![cur_fitter] =
                                   Step(fitter, <<<<measured_y>>>>, TRUE)]
                /\ IF strip_hits[l][strip] = 1
                   THEN /\ hit_strips' = [hit_strips EXCEPT ![l] = Remove(@, strip)]
                        /\ UNCHANGED strip_hits
                   ELSE /\ strip_hits' = [strip_hits EXCEPT ![l][strip] = @ - 1]
                        /\ UNCHANGED hit_strips
                /\ event' = [NoEvent EXCEPT !.op = "accept", !.layer = l, !.strip = strip,
                                            !.fitter = cur_fitter,
                                            !.before = strip_hits[l][strip],
                                            !.n = Len(fitter.measurements)]
    /\ cur_fitter' = cur_fitter + 1
    /\ UNCHANGED <<layer_hits, det_hits, filt, cur_layer, pc, propvars, itervars,
                   ntracks, nhits, objvars>>

\* the end of the loop over the fitters: _new_filters(layer), next layer
FitSpawn ==
    /\ pc = "fit" /\ cur_fitter > Len(fitters)
    /\ NewFilters(cur_layer)
    /\ cur_layer' = cur_layer - 1
    /\ cur_fitter' = 1
    /\ pc' = IF cur_layer > 1 THEN "fit" ELSE "select"
    /\ UNCHANGED <<propvars, itervars, ntracks, nhits, objvars>>

\* Keeps, off by one
KeepsTwo(f) == Len(f.measurements) > 1

\* the selection on the number of measurements
Keeps(f) == Len(f.measurements) > 2

RECURSIVE Select(_)
Select(fs) ==
    IF Len(fs) = 0 THEN <<>>
    ELSE (IF Keeps(Head(fs)) THEN <<Head(fs)>> ELSE <<>>) \o Select(Tail(fs))

\* the end of fit: self.fitters = [...]; return self.fitters
FitSelect ==
    /\ pc = "select"
    /\ fitters' = Select(fitters)
    /\ event' = [NoEvent EXCEPT !.op = "select", !.before = Len(fitters),
                                !.n = Len(Select(fitters))]
    /\ pc' = "fitted"
    /\ cur_fitter' = 1
    /\ UNCHANGED <<detvars, filt, cur_layer, propvars, itervars, ntracks, nhits, objvars>>

\* FitManager.propagate_tracks, the head of one pass of its loop: reverse,
\* the initial point, step(None), the second point, then iter(fitter)
PropStart ==
    /\ pc \in {"fitted", "propagate"} /\ cur_fitter <= Len(fitters)
    /\ LET f1 == Reverse(fitters[cur_fitter])
           x0 == DetX - XStep
           f2 == Step(f1, None, FALSE)
           x1 == x0 + XStep
           est == <<<<x0, f1.x[1][1]>>, <<x1, f2.x[1][1]>>>>
       IN  /\ estimates' = est
           /\ current_x' = x1
           /\ IF Len(f2.measurements) = 0
              THEN /\ fitters' = [fitters EXCEPT ![cur_fitter] = f2]
                   /\ pc' = "StopIteration"
              ELSE /\ fitters' = [fitters EXCEPT ![cur_fitter] = Reverse(f2)]
                   /\ pc' = "prop"
    /\ event' = [NoEvent EXCEPT !.op = "propstart", !.fitter = cur_fitter,
                                !.n = Len(fitters[cur_fitter].measurements)]
    /\ UNCHANGED <<detvars, filt, cur_layer, cur_fitter, result, itervars, ntracks, nhits, objvars>>

\* one pass of "for state, _ in fitter": next(fitter), then the body or the end
PropNext ==
    /\ pc = "prop"
    /\ LET r == TwoWayNext(fitters[cur_fitter])
       IN  /\ fitters' = [fitters EXCEPT ![cur_fitter] = r.f]
           /\ IF r.stop
              THEN /\ result' = Append(result, estimates)
                   /\ cur_fitter' = cur_fitter + 1
                   /\ pc' = "propagate"
                   /\ event' = [NoEvent EXCEPT !.op = "propend", !.fitter = cur_fitter]
                   /\ UNCHANGED <<estimates, current_x>>
              ELSE /\ estimates' = Append(estimates, <<current_x + XStep, r.f.x[1][1]>>)
                   /\ current_x' = current_x + XStep
                   /\ event' = [NoEvent EXCEPT !.op = "propnext", !.fitter = cur_fitter]
                   /\ UNCHANGED <<result, cur_fitter, pc>>
    /\ UNCHANGED <<detvars, filt, cur_layer, itervars, ntracks, nhits, objvars>>

\* propagate_tracks returns result
PropReturn ==
    /\ pc \in {"fitted", "propagate"} /\ cur_fitter > Len(fitters)
    /\ pc' = "done"
    /\ event' = [NoEvent EXCEPT !.op = "propreturn", !.n = Len(result)]
    /\ UNCHANGED <<detvars, fitvars, propvars, itervars, ntracks, nhits, objvars>>

\* ------------------------------------------------- a filter iterated alone
\* the measurements a caller hands to add_meas: 1 x 1 matrices
MeasValues == { <<<<0>>>>, <<<<2 * Scale>>>>, <<<<5 * Scale>>>> }
MeasLists == UNION { [1..k -> MeasValues] : k \in 0..MaxMeas }

\* Reversed, but not reversing
ReversedNot(s) == s

\* reversed(measurements)
Reversed(s) == List([k \in 1..Len(s) |-> s[Len(s) + 1 - k]], Len(s))

\* LKFilter.add_meas keeps the caller's list; TwoWayLKFilter.add_meas copies
\* it into two deques
AddMeas(ms) ==
    /\ pc = "new"
    /\ data' = ms
    /\ given' = ms
    /\ kf' = IF kf.kind = "LKFilter"
             THEN [kf EXCEPT !.has_meas = TRUE, !.measurements = ms]
             ELSE [kf EXCEPT !.has_meas = TRUE, !.measurements = Reversed(ms),
                             !.reverse_measurements = ms]
    /\ pc' = "assigned"
    /\ event' = [NoEvent EXCEPT !.op = "add_meas", !.n = Len(ms)]
    /\ UNCHANGED <<detvars, fitvars, propvars, yielded, ntracks, nhits, objvars>>

\* kf.step(m, add=True) by hand on a TwoWayLKFilter that has no measurements
\* assigned, as in the second example of its docstring
StepAdd(m) ==
    /\ pc \in {"new", "stepping"} /\ kf.kind = "TwoWayLKFilter"
    /\ Len(given) < MaxMeas
    /\ kf' = Step(kf, m, TRUE)
    /\ given' = Append(given, m)
    /\ pc' = "stepping"
    /\ event' = [NoEvent EXCEPT !.op = "step", !.n = Len(given) + 1]
    /\ UNCHANGED <<detvars, fitvars, propvars, data, yielded, ntracks, nhits, objvars>>

\* kf.reverse() after the steps by hand
ReverseKf ==
    /\ pc = "stepping"
    /\ kf' = Reverse(kf)
    /\ pc' = "reversed"
    /\ event' = [NoEvent EXCEPT !.op = "reverse"]
    /\ UNCHANGED <<detvars, fitvars, propvars, data, given, yielded, ntracks, nhits, objvars>>

\* iter(kf): LKFilter.__iter__ / TwoWayLKFilter.__iter__, after add_meas
\* ("assigned"), after steps by hand and reverse ("reversed"), before any
\* measurements were assigned ("new") or again after a complete pass
\* ("exhausted", "relisted").  "if not self.measurements: raise StopIteration"
\* is outside any next(), so the exception reaches the caller of iter.
Iter ==
    /\ pc \in {"assigned", "reversed", "new", "exhausted", "relisted"}
    /\ IF Len(kf.measurements) = 0
       THEN /\ pc' = "StopIteration"
            /\ UNCHANGED kf
       ELSE /\ pc' = IF pc = "assigned" THEN "iterating" ELSE "relisting"
            /\ kf' = IF kf.kind = "LKFilter" THEN kf ELSE Reverse(kf)
    /\ event' = [NoEvent EXCEPT !.op = "iter", !.n = Len(kf.measurements),
                                !.error = IF Len(kf.measurements) = 0
                                          THEN "StopIteration" ELSE "none"]
    /\ UNCHANGED <<detvars, fitvars, propvars, data, given, yielded, ntracks, nhits, objvars>>

\* next(kf) in a for loop: one more state, or the end of the loop.  The list
\* an LKFilter pops is the caller's list itself.
IterNext ==
    /\ pc \in {"iterating", "relisting"}
    /\ LET r == IF kf.kind = "LKFilter" THEN LKNext(kf) ELSE TwoWayNext(kf)
       IN  /\ kf' = r.f
           /\ data' = IF kf.kind = "LKFilter" THEN r.f.measurements ELSE data
           /\ IF r.stop
              THEN /\ pc' = IF pc = "iterating" THEN "exhausted" ELSE "relisted"
                   /\ UNCHANGED yielded
              ELSE /\ pc' = pc
                   /\ yielded' = Append(yielded,
                          [state |-> <<r.f.x, r.f.P>>, used |-> r.used, rev |-> r.f.rev,
                           A |-> r.f.A])
           /\ event' = [NoEvent EXCEPT !.op = IF r.stop THEN "stop" ELSE "next"]
    /\ UNCHANGED <<detvars, fitvars, propvars, given, ntracks, nhits, objvars>>

\* ------------------------------------------------- a filter stepped by hand
\* what a caller hands to update and step: 1 x 1 measurements, a 1 x 2 one
StepValues == { <<<<2 * Scale>>>>, <<<<5 * Scale>>>> }
WrongShapes == { <<<<2 * Scale, Scale>>>> }

\* TryUpdate, but a refused measurement resets P
TryUpdateResets(f, z) ==
    IF WrongShape(f, z) THEN [f |-> [f EXCEPT !.P = KalP0], error |-> "Exception"]
    ELSE [f |-> Update(f, z), error |-> "none"]

\* LKFilter.update as called: the filter afterwards and the exception raised
TryUpdate(f, z) ==
    IF WrongShape(f, z) THEN [f |-> f, error |-> "Exception"]
    ELSE [f |-> Update(f, z), error |-> "none"]

\* LKFilter.step as called: the bookkeeping of add comes first, so it stays
\* when update raises; predict and the counter are not reached then
TryStep(f, z, add) ==
    IF z # None /\ WrongShape(f, z)
    THEN [f |-> Remember(f, z, add), error |-> "Exception"]
    ELSE [f |-> Step(f, z, add), error |-> "none"]

\* kf.update(z) by hand
UpdateCall(z) ==
    /\ pc = "hand" /\ Len(data) < MaxMeas
    /\ kf' = TryUpdate(kf, z).f
    /\ event' = [NoEvent EXCEPT !.op = "update", !.z = z, !.error = TryUpdate(kf, z).error]
    /\ data' = Append(data, event')
    /\ UNCHANGED <<detvars, fitvars, propvars, given, yielded, pc, ntracks, nhits, objvars>>

\* kf.step(z, add) by hand
StepCall(z, add) ==
    /\ pc = "hand" /\ Len(data) < MaxMeas
    /\ kf' = TryStep(kf, z, add).f
    /\ event' = [NoEvent EXCEPT !.op = "step", !.z = z, !.add = add,
                                !.error = TryStep(kf, z, add).error]
    /\ data' = Append(data, event')
    /\ UNCHANGED <<detvars, fitvars, propvars, given, yielded, pc, ntracks, nhits, objvars>>

\* ------------------------------------------------------- Matrix on its own
\* the elements written into mat and the lists of rows assigned to mat.value
Entries == { 0, Scale }
RowLists == { Identity(2), <<<<Scale, Scale>>, <<0, Scale>>>> }

\* the arguments of Matrix.zero and Matrix.identity
Dims == (0 - 1)..MaxDim

\* the operands of +, - and *: Matrix(), and matrices of 2 x 0, 1 x 1, 1 x 2,
\* 2 x 1 and 2 x 2
Operands ==
    { EmptyMatrix,
      NewMatrix(<<<<>>, <<>>>>),
      NewMatrix(<<<<2 * Scale>>>>),
      NewMatrix(<<<<Scale, 2 * Scale>>>>),
      NewMatrix(<<<<Scale>>, <<3 * Scale>>>>),
      NewMatrix(<<<<Scale, 2 * Scale>>, <<3 * Scale, 4 * Scale>>>>) }

notmat == <<detvars, fitvars, propvars, itervars, pc, event, ntracks, nhits, heap, objs>>

\* mat.T: the cached transpose, or _transpose(), whose element reads empty
\* both caches before the result is stored
GetT ==
    /\ pc \in {"cache", "held"}
    /\ mat' = IF mat.T # None THEN mat
              ELSE [Uncache(mat) EXCEPT !.T = Transpose(mat.value)]
    /\ out' = [out EXCEPT !.op = "T", !.error = "none", !.result = mat'.T]
    /\ UNCHANGED notmat

\* mat.I: the cached inverse, or _inverse(), whose element reads (in LU) empty
\* both caches before the result is stored
GetI ==
    /\ pc \in {"cache", "held"}
    /\ mat' = IF mat.I # None THEN mat
              ELSE [Uncache(mat) EXCEPT !.I = MatI(mat.value)]
    /\ out' = [out EXCEPT !.op = "I", !.error = "none", !.result = mat'.I]
    /\ UNCHANGED notmat

\* mat[i][j] = v: __getitem__ returns the row through the getter of value
SetItem(i, j, v) ==
    /\ pc \in {"cache", "held"}
    /\ mat' = [Uncache(mat) EXCEPT !.value[i][j] = v]
    /\ out' = [out EXCEPT !.op = "setitem", !.error = "none", !.result = None,
                          !.old = [T |-> mat.T, I |-> mat.I]]
    /\ UNCHANGED notmat

\* row = mat[i], kept by the caller: __getitem__ goes through the getter of
\* value; heap lists the rows the caller holds
GetRow(i) ==
    /\ pc = "held"
    /\ mat' = Uncache(mat)
    /\ heap' = IF \E k \in 1..Len(heap) : heap[k] = i THEN heap ELSE Append(heap, i)
    /\ out' = [out EXCEPT !.op = "getrow", !.error = "none", !.result = None]
    /\ UNCHANGED <<detvars, fitvars, propvars, itervars, pc, event, ntracks, nhits, objs>>

\* row[j] = v on a row obtained earlier: the list is written in place, no
\* attribute of the matrix is touched
HeldWrite(i, j, v) ==
    /\ pc = "held"
    /\ \E k \in 1..Len(heap) : heap[k] = i
    /\ mat' = [mat EXCEPT !.value[i][j] = v]
    /\ out' = [out EXCEPT !.op = "heldwrite", !.error = "none", !.result = None,
                          !.old = [T |-> mat.T, I |-> mat.I]]
    /\ UNCHANGED notmat

\* mat.value = rows: the setter of value
SetValue(rows) ==
    /\ pc = "cache"
    /\ mat' = [value |-> rows, dimx |-> Len(rows), dimy |-> Len(rows[1]),
               T |-> None, I |-> None]
    /\ out' = [out EXCEPT !.op = "setvalue", !.error = "none", !.result = None,
                          !.old = [T |-> mat.T, I |-> mat.I]]
    /\ UNCHANGED notmat

\* Matrix.zero(dimx, dimy), Matrix.identity(dim)
MakeZero(dimx, dimy) ==
    /\ pc = "arith"
    /\ out' = [NoOut EXCEPT !.op = "zero", !.args = <<dimx, dimy>>,
                            !.error = ZeroOp(dimx, dimy).error,
                            !.result = ZeroOp(dimx, dimy).result, !.old = out.old]
    /\ UNCHANGED <<mat, notmat>>

MakeIdentity(dim) ==
    /\ pc = "arith"
    /\ out' = [NoOut EXCEPT !.op = "identity", !.args = <<dim>>,
                            !.error = IdentityOp(dim).error,
                            !.result = IdentityOp(dim).result, !.old = out.old]
    /\ UNCHANGED <<mat, notmat>>

\* a + b, a - b, a * b.  The operands afterwards: their elements were read
\* (caches emptied) if the shapes agreed, and b.T is cached by a product.
BinOp(op, a, b) ==
    LET r == CASE op = "add" -> AddOp(a, b)
               [] op = "sub" -> SubOp(a, b)
               [] op = "mul" -> MulOp(a, b)
        bt == IF op = "mul" /\ a.dimy = b.dimx /\ TransposeOp(b).error = "none"
              THEN [Uncache(b) EXCEPT !.T = TransposeOp(b).result.value]
              ELSE Uncache(b)
    IN  /\ pc = "arith"
        /\ out' = [NoOut EXCEPT !.op = op, !.args = <<a, b>>, !.error = r.error,
                                !.result = r.result, !.a = Uncache(a), !.b = bt,
                                !.old = out.old]
        /\ UNCHANGED <<mat, notmat>>

\* integer matrices of every shape up to 2 x 2
IntEntries == { 0 - Scale, 2 * Scale }
IntMatrices ==
    { NewMatrix(v) : v \in UNION { [1..dimx -> [1..dimy -> IntEntries]] :
                                      dimx \in 1..2, dimy \in 1..2 } }

\* (a + b) - b == a, as test_add2 evaluates it
AddThenSub(a, b) ==
    LET sum == AddOp(a, b)
        r == IF sum.error # "none" THEN sum ELSE SubOp(sum.result, b)
    IN  /\ pc = "arith"
        /\ out' = [NoOut EXCEPT !.op = "addsub", !.args = <<a, b>>, !.error = r.error,
                                !.result = r.result, !.a = Uncache(a), !.b = Uncache(b),
                                !.eq = r.error = "none" /\ MatEq(r.result, a)]
        /\ UNCHANGED <<mat, notmat>>

\* ------------------------------------------------- filters held by reference
\* copy(self.filt) is a shallow copy: the copy's attributes refer to the very
\* objects the prototype's attributes refer to.  Matrices are never written in
\* place by a filter (x, P and A are rebound), so they are kept by value; the
\* buffers measurements and reverse_measurements are appended to and popped
\* in place, so they are kept by reference into heap.
NoRef == 0

Buffer(h, r) == IF r = NoRef THEN <<"None">> ELSE <<"list", h[r]>>

\* TwoWayLKFilter.__init__: measurements is None, reverse_measurements a new []
NewObj(h) ==
    [o |-> [A |-> KalA, x |-> KalX0, P |-> KalP0, rev |-> FALSE, counter |-> NoCounter,
            measurements |-> NoRef, reverse_measurements |-> Len(h) + 1],
     h |-> Append(h, <<>>)]

\* TwoWayLKFilter.add_meas: two new deques
ObjAddMeas(o, h, ms) ==
    [o |-> [o EXCEPT !.reverse_measurements = Len(h) + 1, !.measurements = Len(h) + 2],
     h |-> h \o <<ms, Reversed(ms)>>]

\* TwoWayLKFilter.reverse
ObjReverse(o) == [o EXCEPT !.A = Inverse(@), !.rev = ~@]

\* the bookkeeping of LKFilter.step: append to the list measurements refers
\* to, or bind measurements to a new list when it is None
ObjRemember(o, h, measurement, add) ==
    IF ~add THEN [o |-> o, h |-> h]
    ELSE IF o.measurements # NoRef
         THEN [o |-> o, h |-> [h EXCEPT ![o.measurements] = Append(@, measurement)]]
         ELSE [o |-> [o EXCEPT !.measurements = Len(h) + 1],
               h |-> Append(h, <<<<o.x[1]>>>>)]

\* LKFilter.step
ObjStep(o, h, measurement, add) ==
    LET r == ObjRemember(o, h, measurement, add)
        o2 == IF measurement # None THEN Update(r.o, measurement) ELSE r.o
        o3 == Predict(o2)
    IN  [o |-> [o3 EXCEPT !.counter = IF @ = NoCounter THEN 0 ELSE @ + 1], h |-> r.h]

\* TwoWayLKFilter.next: pop the right end of the buffer reverse_measurements
\* refers to and step; when it is empty exchange the two references first,
\* and stop, or reverse and resume
ObjNext(o, h) ==
    LET swap == Len(h[o.reverse_measurements]) = 0
        g == IF swap THEN [o EXCEPT !.reverse_measurements = o.measurements,
                                    !.measurements = o.reverse_measurements]
             ELSE o
        stop == swap /\ Len(h[g.reverse_measurements]) = 0
        f == IF swap /\ ~stop THEN ObjReverse(g) ELSE g
        r == f.reverse_measurements
        current == IF stop THEN None ELSE Last(h[r])
        s == ObjStep(f, [h EXCEPT ![r] = Front(@)], current, FALSE)
    IN  IF stop THEN [o |-> g, h |-> h, stop |-> TRUE]
        ELSE [o |-> s.o, h |-> s.h, stop |-> FALSE]

RECURSIVE ObjSelect(_, _)
\* [x for x in self.fitters if len(x.measurements) > 2]
ObjSelect(os, h) ==
    IF Len(os) = 0 THEN <<>>
    ELSE (IF Len(h[Head(os).measurements]) > 2 THEN <<Head(os)>> ELSE <<>>)
         \o ObjSelect(Tail(os), h)

\* what the claim of decoupling looks at in object j
View(os, h, j) ==
    [x |-> os[j].x, P |-> os[j].P, A |-> os[j].A, rev |-> os[j].rev,
     counter |-> os[j].counter,
     measurements |-> Buffer(h, os[j].measurements),
     reverse_measurements |-> Buffer(h, os[j].reverse_measurements)]

notobj == <<detvars, filt, fitters, propvars, itervars, ntracks, nhits, mat, out>>

\* the measurements a prototype may have been given before FitManager gets it
UsedLists == { <<<<<<0>>>>>> }

\* the strips the tracks hit: horizontal tracks along the bottom of a layer
AliasStrips == { NumStrip(Bottom) }

\* what a candidate is given in fit: None, or the position of a hit strip
StripMeas == { None } \cup { <<<<StripY(s)>>>> : s \in AliasStrips }

\* fit: layers = self.detector.get_layers(reverse=True); layer = next(layers)
AliasFit ==
    /\ pc = "afit"
    /\ cur_layer' = NumLayers
    /\ pc' = "aspawn"
    /\ event' = [NoEvent EXCEPT !.op = "afit"]
    /\ UNCHANGED <<notobj, objs, heap, cur_fitter>>

\* _new_filters, for a layer with one hit left, on strip s
AliasSpawn(s) ==
    /\ pc = "aspawn" /\ Len(objs) <= MaxTracks
    /\ LET y == StripY(s)
           state == Transpose(<<<<y, Div(y, LayerX(cur_layer))>>>>)
           cov == <<<<10 * Scale, 0>>, <<0, 10 * Scale>>>>
           kfilter == [objs[1] EXCEPT !.x = state, !.P = cov]
           r == ObjStep(kfilter, heap, None, TRUE)
       IN  /\ objs' = Append(objs, r.o)
           /\ heap' = r.h
    /\ event' = [NoEvent EXCEPT !.op = "aspawn", !.fitter = Len(objs) + 1, !.layer = cur_layer]
    /\ pc' = "aspawned"
    /\ UNCHANGED <<notobj, cur_layer, cur_fitter>>

\* the end of _new_filters: on to the next layer, or to the selection
AliasLayerDone ==
    /\ pc \in {"aspawn", "aspawned"}
    /\ IF cur_layer > 1
       THEN /\ cur_layer' = cur_layer - 1
            /\ cur_fitter' = 2
            /\ pc' = "astep"
            /\ objs' = objs
       ELSE /\ objs' = <<objs[1]>> \o ObjSelect(Tail(objs), heap)
            /\ cur_fitter' = 2
            /\ pc' = "areverse"
            /\ UNCHANGED cur_layer
    /\ event' = [NoEvent EXCEPT !.op = "alayer", !.layer = cur_layer]
    /\ UNCHANGED <<notobj, heap>>

\* fit, the loop over the fitters on one layer: fitter.step(..., add=True)
AliasStep(m) ==
    /\ pc = "astep" /\ cur_fitter <= Len(objs)
    /\ LET r == ObjStep(objs[cur_fitter], heap, m, TRUE)
       IN  /\ objs' = [objs EXCEPT ![cur_fitter] = r.o]
           /\ heap' = r.h
    /\ cur_fitter' = cur_fitter + 1
    /\ event' = [NoEvent EXCEPT !.op = "astep", !.fitter = cur_fitter, !.layer = cur_layer]
    /\ UNCHANGED <<notobj, pc, cur_layer>>

\* fit, after the loop over the fitters: self._new_filters(layer)
AliasStepsDone ==
    /\ pc = "astep" /\ cur_fitter > Len(objs)
    /\ pc' = "aspawn"
    /\ event' = [NoEvent EXCEPT !.op = "asteps", !.layer = cur_layer]
    /\ UNCHANGED <<notobj, objs, heap, cur_layer, cur_fitter>>

\* propagate_tracks: fitter.reverse()
AliasReverse ==
    /\ pc = "areverse" /\ cur_fitter <= Len(objs)
    /\ objs' = [objs EXCEPT ![cur_fitter] = ObjReverse(@)]
    /\ event' = [NoEvent EXCEPT !.op = "areverse", !.fitter = cur_fitter]
    /\ pc' = "astepnone"
    /\ UNCHANGED <<notobj, heap, cur_layer, cur_fitter>>

\* propagate_tracks: fitter.step(None), then iter(fitter)
AliasStepNone ==
    /\ pc = "astepnone"
    /\ LET r == ObjStep(objs[cur_fitter], heap, None, FALSE)
           empty == r.o.measurements = NoRef \/ Len(r.h[r.o.measurements]) = 0
       IN  /\ objs' = [objs EXCEPT ![cur_fitter] = IF empty THEN r.o ELSE ObjReverse(r.o)]
           /\ heap' = r.h
           /\ pc' = IF empty THEN "araised" ELSE "anext"
    /\ event' = [NoEvent EXCEPT !.op = "astepnone", !.fitter = cur_fitter]
    /\ UNCHANGED <<notobj, cur_layer, cur_fitter>>

\* propagate_tracks: one turn of "for state, _ in fitter"
AliasNext ==
    /\ pc = "anext"
    /\ LET r == ObjNext(objs[cur_fitter], heap)
       IN  /\ objs' = [objs EXCEPT ![cur_fitter] = r.o]
           /\ heap' = r.h
           /\ cur_fitter' = IF r.stop THEN cur_fitter + 1 ELSE cur_fitter
           /\ pc' = IF r.stop THEN "areverse" ELSE "anext"
    /\ event' = [NoEvent EXCEPT !.op = "anext", !.fitter = cur_fitter]
    /\ UNCHANGED <<notobj, cur_layer>>

\* ---------------------------------------------------------- specifications
IdleFilter == NewFilter("TwoWayLKFilter", KalA, KalX0, KalP0)

DetInit ==
    /\ strip_hits = [l \in Layers |-> [s \in Strips |-> 0]]
    /\ hit_strips = [l \in Layers |-> <<>>]
    /\ layer_hits = [l \in Layers |-> 0]
    /\ det_hits = 0
    /\ ntracks = 0 /\ nhits = 0
    /\ cur_layer = 0 /\ cur_fitter = 0
    /\ fitters = <<>>
    /\ estimates = <<>> /\ current_x = 0 /\ result = <<>>
    /\ data = <<>> /\ given = <<>> /\ yielded = <<>>
    /\ event = NoEvent
    /\ mat = NewMatrix(Identity(2)) /\ out = NoOut

\* a detector without hits, a prototype, and FitManager(det, prototype), which
\* reverses the prototype
Init ==
    /\ DetInit
    /\ heap = <<>> /\ objs = <<>>
    /\ filt = Reverse(IdleFilter)
    /\ kf = IdleFilter
    /\ pc = "setup"

Next ==
    \/ \E t \in Tracks : PropagateTrack(t)
    \/ ClearHits
    \/ FitBegin
    \/ FitAssign
    \/ FitSpawn
    \/ FitSelect
    \/ PropStart
    \/ PropNext
    \/ PropReturn

Spec == Init /\ [][Next]_vars

\* the detector alone: tracks, direct hits and clear_hits
NextDet ==
    \/ \E t \in DetTracks : PropagateTrack(t)
    \/ \E l \in Layers, xok \in BOOLEAN, y \in HitYs : LayerHit(l, xok, y)
    \/ ClearHits

SpecDet == Init /\ [][NextDet]_vars

\* a freshly constructed LKFilter or TwoWayLKFilter, iterated on its own
InitIter ==
    /\ DetInit
    /\ heap = <<>> /\ objs = <<>>
    /\ filt = IdleFilter
    /\ kf \in { NewFilter(k, KalA, KalX0, KalP0) : k \in {"LKFilter", "TwoWayLKFilter"} }
    /\ pc = "new"

NextIter ==
    \/ \E ms \in MeasLists : AddMeas(ms)
    \/ \E m \in MeasValues : StepAdd(m)
    \/ ReverseKf
    \/ Iter
    \/ IterNext

SpecIter == InitIter /\ [][NextIter]_vars

\* Matrix objects on their own: one whose caches are exercised ("cache"), or
\* the classmethods and the arithmetic ("arith")
InitMat ==
    /\ DetInit
    /\ heap = <<>> /\ objs = <<>>
    /\ filt = IdleFilter /\ kf = IdleFilter
    /\ pc \in {"cache", "arith"}

NextMat ==
    \/ GetT
    \/ GetI
    \/ \E i, j \in 1..2, v \in Entries : SetItem(i, j, v)
    \/ \E rows \in RowLists : SetValue(rows)
    \/ \E dimx, dimy \in Dims : MakeZero(dimx, dimy)
    \/ \E dim \in Dims : MakeIdentity(dim)
    \/ \E op \in {"add", "sub", "mul"}, a, b \in Operands : BinOp(op, a, b)
    \/ \E a, b \in IntMatrices : AddThenSub(a, b)

SpecMat == InitMat /\ [][NextMat]_vars

\* a Matrix object some of whose rows the caller keeps references to
InitHeld ==
    /\ DetInit
    /\ heap = <<>> /\ objs = <<>>
    /\ filt = IdleFilter /\ kf = IdleFilter
    /\ pc = "held"

NextHeld ==
    \/ GetT
    \/ GetI
    \/ \E i, j \in 1..2, v \in Entries : SetItem(i, j, v)
    \/ \E i \in 1..2 : GetRow(i)
    \/ \E i, j \in 1..2, v \in Entries : HeldWrite(i, j, v)

SpecHeld == InitHeld /\ [][NextHeld]_vars

\* a freshly constructed LKFilter, updated and stepped by hand; data keeps
\* the calls made
InitStep ==
    /\ DetInit
    /\ heap = <<>> /\ objs = <<>>
    /\ filt = IdleFilter
    /\ kf = NewFilter("LKFilter", KalA, KalX0, KalP0)
    /\ pc = "hand"

NextStep ==
    \/ \E z \in StepValues \cup WrongShapes : UpdateCall(z)
    \/ \E z \in StepValues \cup WrongShapes \cup { None }, add \in BOOLEAN : StepCall(z, add)

SpecStep == InitStep /\ [][NextStep]_vars

\* a prototype, fresh or given measurements before, and FitManager(det,
\* prototype), which reverses it; then fit and propagate_tracks on the
\* candidates, the detector's hits being inputs
InitAlias ==
    /\ DetInit
    /\ filt = IdleFilter /\ kf = IdleFilter
    /\ \E a \in { NewObj(<<>>) } \cup
                  { ObjAddMeas(NewObj(<<>>).o, NewObj(<<>>).h, ms) : ms \in UsedLists } :
           /\ objs = <<ObjReverse(a.o)>>
           /\ heap = a.h
    /\ pc = "afit"

NextAlias ==
    \/ AliasFit
    \/ \E s \in AliasStrips : AliasSpawn(s)
    \/ AliasLayerDone
    \/ \E m \in StripMeas : AliasStep(m)
    \/ AliasStepsDone
    \/ AliasReverse
    \/ AliasStepNone
    \/ AliasNext

SpecAlias == InitAlias /\ [][NextAlias]_vars

\* ------------------------------------------------------------------ claims
InHitStrips(l, s) == \E k \in 1..Len(hit_strips[l]) : hit_strips[l][k] = s

\* C1: when a candidate accepts a gated measurement from a strip during fit,
\* that strip's hit count goes down by exactly one, and the strip is out of
\* hit_strips exactly when its count is zero.
C1_AcceptConsumesOneHit ==
    event.op = "accept" =>
        /\ strip_hits[event.layer][event.strip] = event.before - 1
        /\ ~InHitStrips(event.layer, event.strip) <=> strip_hits[event.layer][event.strip] = 0

\* the states between two calls of the detector's and the manager's methods,
\* and between two layers of fit
AtRest == \/ pc \in {"setup", "select", "fitted", "done"}
          \/ pc = "fit" /\ cur_fitter = 1

\* C2: at rest, a strip is in its layer's hit_strips iff its hit count is > 0.
C2_HitStripsIffHits ==
    AtRest => \A l \in Layers, s \in Strips : InHitStrips(l, s) <=> strip_hits[l][s] > 0

\* C3 as claimed: after fit, propagate_tracks returns num_layers + 1 points for
\* every surviving candidate.
C3_LengthIsLayersPlusOne ==
    pc = "done" => \A i \in 1..Len(result) : Len(result[i]) = NumLayers + 1

\* C3 as amended: a candidate has one retained entry per layer from the one it
\* was spawned on down to the leftmost, and propagate_tracks returns two more
\* points than that for it (num_layers + 2 when spawned on the rightmost layer).
C3_LengthIsEntriesPlusTwo ==
    /\ pc = "fitted" => \A i \in 1..Len(fitters) :
            Len(fitters[i].measurements) = fitters[i].born
    /\ pc = "done" =>
            /\ Len(result) = Len(fitters)
            /\ \A i \in 1..Len(result) : Len(result[i]) = fitters[i].born + 2

C3_Witness ==
    /\ pc = "done"
    /\ \E i, j \in 1..Len(result) :
            /\ fitters[i].born = NumLayers /\ Len(result[i]) = NumLayers + 2
            /\ fitters[j].born < NumLayers /\ Len(result[j]) = fitters[j].born + 2

TwoWayDone == pc = "exhausted" /\ kf.kind = "TwoWayLKFilter" /\ Len(given) >= 1

\* C4: iterating a TwoWayLKFilter over k >= 1 measurements yields 2k states:
\* first mk..m1 with the inverted A (rev true), then m1..mk with the original
\* A (rev false); then the iteration stops.
C4_BackwardThenForward ==
    /\ (pc = "iterating" /\ kf.kind = "TwoWayLKFilter") => Len(yielded) <= 2 * Len(given)
    /\ TwoWayDone =>
            LET k == Len(given)
            IN  /\ Len(yielded) = 2 * k
                /\ \A i \in 1..k :
                        /\ yielded[i].used = given[k + 1 - i]
                        /\ yielded[i].rev /\ yielded[i].A = <<<<Scale, 0 - XStep>>, <<0, Scale>>>>
                        /\ yielded[k + i].used = given[i]
                        /\ ~yielded[k + i].rev /\ yielded[k + i].A = KalA

C4_Witness ==
    /\ TwoWayDone /\ Len(given) = MaxMeas
    /\ given[1] # given[MaxMeas]
    /\ Len(yielded) = 2 * MaxMeas

\* C5: after a complete iteration of a TwoWayLKFilter over k >= 1 measurements
\* reverse has run exactly twice: rev is as before, A is the inverse of the
\* inverse of the initial A, and both buffers are empty.
C5_ReversedTwice ==
    TwoWayDone =>
        /\ kf.nrev = 2
        /\ kf.rev = FALSE
        /\ kf.A = Inverse(Inverse(KalA))
        /\ kf.measurements = <<>> /\ kf.reverse_measurements = <<>>

C5_Witness == TwoWayDone /\ Len(given) = 2 /\ kf.counter = 3

RECURSIVE StatesOf(_, _)
\* the states step(m1), ..., step(mk) return, from filter f
StatesOf(f, ms) ==
    IF Len(ms) = 0 THEN <<>>
    ELSE LET g == Predict(IF Head(ms) = None THEN f ELSE Update(f, Head(ms)))
         IN  <<<<g.x, g.P>>>> \o StatesOf(g, Tail(ms))

LKDone == pc = "exhausted" /\ kf.kind = "LKFilter" /\ Len(given) >= 1

\* C6: iterating an LKFilter over k >= 1 measurements yields k states, the
\* i-th from step(mi), head first; then it stops, and the list handed to
\* add_meas is empty.
C6_HeadFirstUntilEmpty ==
    /\ (pc = "iterating" /\ kf.kind = "LKFilter") => Len(yielded) <= Len(given)
    /\ LKDone =>
            /\ Len(yielded) = Len(given)
            /\ \A i \in 1..Len(given) : yielded[i].used = given[i]
            /\ [i \in 1..Len(yielded) |-> yielded[i].state]
                    = StatesOf(NewFilter("LKFilter", KalA, KalX0, KalP0), given)
            /\ data = <<>> /\ kf.measurements = <<>>

C6_Witness ==
    /\ LKDone /\ Len(given) = MaxMeas /\ given[1] # given[MaxMeas]
    /\ data = <<>>

\* the candidate fit is about to look at finds no hit strip on the layer, or
\* the nearest hit strip outside the gate
Unmatched ==
    /\ pc = "fit" /\ cur_fitter <= Len(fitters)
    /\ LET hs == hit_strips[cur_layer]
           y == fitters[cur_fitter].x[1][1]
           d(k) == Abs(y - StripY(hs[k]))
       IN  \/ hs = <<>>
           \/ \E k \in 1..Len(hs) :
                /\ \A j \in 1..Len(hs) : d(k) <= d(j)
                /\ \A j \in 1..(k - 1) : d(j) > d(k)
                /\ (d(k) * d(k)) \div Scale > 9 * fitters[cur_fitter].P[1][1]

\* C7: an unmatched candidate is advanced by one predict-only step with None
\* appended to its buffer; no error; hit_strips and all hit counts unchanged.
C7_UnmatchedOnlyPredicts ==
    [][Unmatched =>
        LET f == fitters[cur_fitter]
        IN  /\ fitters' = [fitters EXCEPT ![cur_fitter] =
                    [f EXCEPT !.measurements = Append(f.measurements, None),
                              !.x = MatMul(f.A, f.x),
                              !.P = MatAdd(MatMul(MatMul(f.A, f.P), Transpose(f.A)), KalQ),
                              !.counter = f.counter + 1]]
            /\ pc' = "fit"
            /\ UNCHANGED <<strip_hits, hit_strips, layer_hits, det_hits>>]_vars

C7_Witness ==
    /\ event.op = "gated" /\ pc = "fit"
    /\ Len(hit_strips[event.layer]) > 0
    /\ Last(fitters[event.fitter].measurements) = None

\* the next step of fit is a call of _new_filters, on layer SpawnLayer
Spawning == pc = "setup" \/ (pc = "fit" /\ cur_fitter > Len(fitters))
SpawnLayer == IF pc = "setup" THEN NumLayers ELSE cur_layer

\* C8: _new_filters appends one candidate per unit of hit multiplicity on the
\* layer, each stepped once and holding only its seed entry, and leaves the
\* layer's hit_strips empty and the layer's counter 0.
C8_OneCandidatePerHit ==
    [][(Spawning /\ pc' # "setup") =>
        LET l == SpawnLayer
            old == Len(fitters)
            new == (old + 1)..Len(fitters')
        IN  /\ SubSeq(fitters', 1, old) = fitters
            /\ \A s \in Strips :
                    Cardinality({i \in new : fitters'[i].measurements = <<<<<<StripY(s)>>>>>>})
                        = IF InHitStrips(l, s) THEN strip_hits[l][s] ELSE 0
            /\ \A i \in new :
                    /\ Len(fitters'[i].measurements) = 1
                    /\ \E s \in Strips : fitters'[i].measurements = <<<<<<StripY(s)>>>>>>
                    /\ fitters'[i].counter = 0
                    /\ fitters'[i].x = MatMul(filt.A,
                            <<fitters'[i].measurements[1][1],
                              <<Div(fitters'[i].measurements[1][1][1], LayerX(l))>>>>)
            /\ hit_strips'[l] = <<>>
            /\ layer_hits'[l] = 0]_vars

C8_Witness ==
    /\ event.op = "spawn" /\ event.n >= 2
    /\ fitters[Len(fitters)].measurements = fitters[Len(fitters) - 1].measurements
    /\ fitters[Len(fitters)].counter = 0

Actual(ms) == Cardinality({k \in 1..Len(ms) : ms[k] # None})

\* C10: every filter fit returns has at least 3 entries that are hit
\* positions, not None.
C10_ThreeActualMeasurements ==
    pc = "fitted" => \A i \in 1..Len(fitters) : Actual(fitters[i].measurements) >= 3

\* every track propagated hit every layer (fit leaves LayeredDetector.hits alone)
AllLayersHit == ntracks >= 1 /\ det_hits = ntracks * NumLayers

\* the candidates spawned on the rightmost layer took a hit on every layer
AllMatched ==
    \A i \in 1..Len(fitters) :
        fitters[i].born = NumLayers =>
            Actual(fitters[i].measurements) = Len(fitters[i].measurements)

\* C11: when n tracks each hit every layer and every candidate of the
\* rightmost layer is matched on every layer (as it is when its nearest hit
\* strip is its own track's and passes the gate), fit returns exactly n
\* candidates, each with num_layers entries.
C11_OneCandidatePerTrack ==
    (pc = "fitted" /\ AllLayersHit /\ AllMatched) =>
        /\ Len(fitters) = ntracks
        /\ \A i \in 1..Len(fitters) :
                /\ fitters[i].born = NumLayers
                /\ Len(fitters[i].measurements) = NumLayers

C11_Witness ==
    /\ pc = "fitted" /\ AllLayersHit /\ AllMatched
    /\ ntracks = 2 /\ Len(fitters) = 2
    /\ fitters[1].measurements # fitters[2].measurements
    /\ Len(fitters[1].measurements) = NumLayers

\* the step is a call of Layer.hit / of propagate_track
HitCalled == nhits' = nhits + 1
TrackCalled == ntracks' = ntracks + 1

\* how often strip s is in the hit_strips hs
Times(hs, s) == Cardinality({k \in 1..Len(hs) : hs[k] = s})

\* C12: Layer.hit with the layer's own x changes nothing for y outside
\* [bottom, top); otherwise the strip floor((y - bottom) / strip_height), one
\* of the layer's strips and the lowest for y = bottom, counts one more, the
\* layer and the detector count one more, and the strip is in hit_strips once.
C12_HitCountsOneStrip ==
    [][(HitCalled /\ event'.xok) =>
        LET l == event'.layer
            y == event'.y
        IN  IF y < Bottom \/ y >= Top THEN UNCHANGED detvars
            ELSE \E s \in Strips :
                    /\ Bottom + (s - 1) * StripHeight <= y
                    /\ y < Bottom + s * StripHeight
                    /\ y = Bottom => s = 1
                    /\ strip_hits' = [strip_hits EXCEPT ![l][s] = @ + 1]
                    /\ layer_hits' = [layer_hits EXCEPT ![l] = @ + 1]
                    /\ det_hits' = det_hits + 1
                    /\ Times(hit_strips'[l], s) = 1
                    /\ \A r \in Strips \ {s} : Times(hit_strips'[l], r) = Times(hit_strips[l], r)
                    /\ \A k \in Layers \ {l} : hit_strips'[k] = hit_strips[k]]_vars

\* C13: Layer.hit with an x that is not the layer's raises RuntimeError
\* whatever y is, and changes no counter and no hit_strips.
C13_WrongXRaises ==
    [][(HitCalled /\ ~event'.xok) =>
        /\ event'.op = "RuntimeError"
        /\ UNCHANGED detvars]_vars

C13_Witness ==
    /\ event.op = "RuntimeError" /\ ~event.xok
    /\ event.y = Top
    /\ det_hits > 0

\* C14: after LayeredDetector.clear_hits, following any propagate_track and
\* Layer.hit calls, every counter is 0 and every hit_strips is empty.
C14_ClearZeroesAll ==
    event.op = "clear" =>
        /\ det_hits = 0
        /\ \A l \in Layers :
                /\ layer_hits[l] = 0
                /\ hit_strips[l] = <<>>
                /\ \A s \in Strips : strip_hits[l][s] = 0

C14_Witness ==
    /\ event.op = "clear" /\ event.before >= 2 /\ nhits >= 1
    /\ det_hits = 0 /\ \A l \in Layers : \A s \in Strips : strip_hits[l][s] = 0

\* C15: propagate_track calls hit on every layer once, in ascending x; a
\* layer counts one more hit iff the track's y there is in [bottom, top); a
\* horizontal track inside the range leaves one hit on every layer, on the
\* same strip of each.
C15_OneHitPerLayer ==
    [][TrackCalled =>
        LET t == event'.track
            y(l) == YIntercept(t, LayerX(l))
        IN  /\ event'.calls = [l \in Layers |-> l]
            /\ \A l \in Layers :
                    layer_hits'[l] = layer_hits[l] + (IF Bottom <= y(l) /\ y(l) < Top THEN 1 ELSE 0)
            /\ (t.a = 0 /\ Bottom <= t.b /\ t.b < Top) =>
                    \E s \in Strips : \A l \in Layers :
                        strip_hits'[l] = [strip_hits[l] EXCEPT ![s] = @ + 1]]_vars

\* C18: a fresh TwoWayLKFilter stepped by hand with add=True over k >= 1
\* measurements, then reversed, then iterated to the end, yields exactly k
\* states (from the k - 1 last measurements, latest first, and then the seed
\* recorded at the first step).
C18_StepsThenListYieldsK ==
    /\ pc = "relisting" => Len(yielded) <= Len(given)
    /\ pc = "relisted" =>
            /\ Len(given) >= 1
            /\ Len(yielded) = Len(given)
            /\ \A i \in 1..(Len(given) - 1) : yielded[i].used = given[Len(given) + 1 - i]

C18_Witness ==
    /\ pc = "relisted" /\ Len(given) = MaxMeas /\ Len(yielded) = MaxMeas
    /\ given[1] # given[MaxMeas]
    /\ kf.measurements = <<>> /\ kf.reverse_measurements = <<>>

\* C16: whatever was cached, after an element write or an assignment to
\* value the next mat.T and mat.I are those of the current value.
C16_CachesFollowWrites ==
    /\ out.op = "T" => out.result = Transpose(mat.value)
    /\ out.op = "I" => out.result = MatI(mat.value)
    /\ mat.T # None => mat.T = Transpose(mat.value)
    /\ mat.I # None => mat.I = MatI(mat.value)

C16_Witness ==
    /\ out.op = "T"
    /\ out.old.T # None /\ out.result # out.old.T
    /\ out.result = Transpose(mat.value)

\* a dimx x dimy matrix object whose elements are e[i][j]
IsMatrix(m, dimx, dimy, e) ==
    /\ m.dimx = dimx /\ m.dimy = dimy /\ Len(m.value) = dimx
    /\ \A i \in 1..dimx :
            /\ Len(m.value[i]) = dimy
            /\ \A j \in 1..dimy : m.value[i][j] = e[i][j]

\* C19: Matrix.zero(m, n) raises ValueError iff m < 1 or n < 1 and otherwise
\* returns m x n zeros; Matrix.identity(n) raises iff n < 1 and otherwise
\* returns the n x n identity.
C19_ZeroAndIdentity ==
    /\ out.op = "zero" =>
            LET dimx == out.args[1]
                dimy == out.args[2]
            IN  IF dimx < 1 \/ dimy < 1 THEN out.error = "ValueError"
                ELSE /\ out.error = "none"
                     /\ IsMatrix(out.result, dimx, dimy, [i \in 1..dimx |-> [j \in 1..dimy |-> 0]])
    /\ out.op = "identity" =>
            LET dim == out.args[1]
            IN  IF dim < 1 THEN out.error = "ValueError"
                ELSE /\ out.error = "none"
                     /\ IsMatrix(out.result, dim, dim,
                                 [i \in 1..dim |-> [j \in 1..dim |-> IF i = j THEN Scale ELSE 0]])

C19_Witness ==
    /\ out.op = "zero" /\ out.args = <<MaxDim, 1>>
    /\ out.error = "none" /\ out.result.value = [i \in 1..MaxDim |-> <<0>>]

\* C20: a + b and a - b raise ValueError when the sizes differ and a * b when
\* a.dimy # b.dimx; otherwise the result is a matrix of a's size (sum,
\* difference) or of size (a.dimx, b.dimy) (product), and the elements of a
\* and b are as before.
C20_ShapesDecide ==
    LET a == out.args[1]
        b == out.args[2]
    IN  /\ out.op \in {"add", "sub"} =>
                IF a.dimx # b.dimx \/ a.dimy # b.dimy THEN out.error = "ValueError"
                ELSE /\ out.error = "none"
                     /\ out.result.dimx = a.dimx /\ out.result.dimy = a.dimy
                     /\ out.a.value = a.value /\ out.b.value = b.value
        /\ out.op = "mul" =>
                IF a.dimy # b.dimx THEN out.error = "ValueError"
                ELSE /\ out.error = "none"
                     /\ out.result.dimx = a.dimx /\ out.result.dimy = b.dimy
                     /\ out.a.value = a.value /\ out.b.value = b.value
C21_AddThenSubIsSame ==
    (out.op = "addsub" /\ ~SizesDiffer(out.args[1], out.args[2])) =>
        /\ out.error = "none"
        /\ out.eq
        /\ out.result.value = out.args[1].value

C21_Witness ==
    /\ out.op = "addsub" /\ out.eq
    /\ out.args[1].dimx = 2 /\ out.args[1].dimy = 2
    /\ out.args[1].value # out.args[2].value
    /\ \A i \in 1..2 : out.args[2].value[i][1] = 2 * Scale

\* C22: update(z) raises exactly when z.size() differs from (H * x).size(),
\* and then leaves x and P as they were.
C22_WrongShapeRefused ==
    [][event'.op = "update" =>
          /\ event'.error = "Exception" <=> WrongShape(kf, event'.z)
          /\ event'.error = "Exception" => kf'.x = kf.x /\ kf'.P = kf.P]_vars

C22_Witness ==
    /\ event.op = "update" /\ event.error = "Exception"
    /\ kf.counter >= 1 /\ kf.P # KalP0

\* the calls made so far were all step(z, add=True), and all returned
OnlyAddSteps ==
    /\ Len(data) >= 1
    /\ \A k \in 1..Len(data) :
            data[k].op = "step" /\ data[k].add /\ data[k].error = "none"

\* C25: after n >= 1 calls step(z_i, add=True) on a filter created without
\* measurements, the measurement buffer holds z_1, ..., z_n in call order.
C25_BufferHoldsEveryStep ==
    (pc = "hand" /\ OnlyAddSteps) =>
        /\ kf.has_meas
        /\ kf.measurements = [k \in 1..Len(data) |-> data[k].z]

\* C29: a step(z, add=True) that fails on the shape of z leaves x, P, the
\* counter and the measurement buffer as they were.
C29_FailedStepChangesNothing ==
    [][(event'.op = "step" /\ event'.add /\ event'.error = "Exception") =>
          /\ kf'.x = kf.x /\ kf'.P = kf.P /\ kf'.counter = kf.counter
          /\ kf'.has_meas = kf.has_meas /\ kf'.measurements = kf.measurements]_vars

\* C30: iterating a filter whose measurement buffer is empty or unset, also
\* again after a complete pass, ends normally with no state yielded: no
\* exception reaches the caller, and A, rev, x and P stay.
C30_EmptyIterationEndsNormally ==
    [][(event'.op = "iter" /\ Len(kf.measurements) = 0) =>
          /\ event'.error = "none"
          /\ yielded' = yielded
          /\ kf'.A = kf.A /\ kf'.rev = kf.rev /\ kf'.x = kf.x /\ kf'.P = kf.P]_vars

\* the candidates are in the order they were spawned in: rightmost layer first
InSpawnOrder ==
    \A j, k \in 1..Len(fitters) : j < k => fitters[j].born >= fitters[k].born

\* candidate k holds one entry per layer from the layer it was spawned on
\* through layer l, and was stepped once for each
OneEntryPerLayer(k, l) ==
    /\ fitters[k].born \in l..NumLayers
    /\ Len(fitters[k].measurements) = fitters[k].born - l + 1
    /\ fitters[k].counter = fitters[k].born - l

\* C23: fit takes the layers once each from the rightmost to the leftmost;
\* the first only spawns; on a later layer every existing candidate is
\* stepped once, in spawn order, before that layer spawns; after fit each
\* candidate holds one entry per layer from its spawn layer to the leftmost.
C23_LayersOnceDescending ==
    /\ pc = "fit" =>
            /\ cur_layer \in 1..(NumLayers - 1)
            /\ InSpawnOrder
            /\ \A k \in 1..Len(fitters) :
                    /\ fitters[k].born > cur_layer
                    /\ OneEntryPerLayer(k, IF k < cur_fitter THEN cur_layer ELSE cur_layer + 1)
    /\ pc \in {"select", "fitted"} =>
            /\ cur_layer = 0
            /\ InSpawnOrder
            /\ \A k \in 1..Len(fitters) : OneEntryPerLayer(k, 1)

C23_Witness ==
    /\ pc = "select" /\ Len(fitters) >= 3
    /\ fitters[1].born = NumLayers /\ fitters[Len(fitters)].born = 1
    /\ \E k \in 1..Len(fitters) : fitters[k].born \in 2..(NumLayers - 1)

\* the transition matrix that runs a candidate forward: the inverse of the
\* prototype's A, which FitManager reversed and fit stepped the candidates with
Forward == Inverse(filt.A)

\* the state step(m) returns from state <<x, P>> under the transition matrix A
StateAfter(f, A, m) == StatesOf([f EXCEPT !.A = A], <<m>>)[1]

\* C24: in propagate_tracks after fit, the step(None) and every state the
\* iteration emits are computed with the forward matrix and rev false; the
\* retained entries are consumed from the leftmost layer's to the seed; and
\* the candidate is left with rev false.
C24_PropagatesForward ==
    [][/\ (pc \in {"fitted", "propagate"} /\ cur_fitter <= Len(fitters)) =>
            LET f == fitters[cur_fitter]
            IN  /\ f.A = filt.A /\ f.rev
                /\ estimates'[2][2] = StateAfter(f, Forward, None)[1][1][1]
       /\ pc = "prop" =>
            LET f == fitters[cur_fitter]
                g == fitters'[cur_fitter]
                emitted == Len(estimates) - 2
                buf == IF Len(f.reverse_measurements) > 0 THEN f.reverse_measurements
                       ELSE f.measurements
            IN  /\ g.rev = FALSE
                /\ Len(buf) = f.born - emitted
                /\ IF emitted < f.born
                   THEN /\ pc' = "prop"
                        /\ g.A = Forward
                        /\ <<g.x, g.P>> = StateAfter(f, Forward, buf[f.born - emitted])
                        /\ g.reverse_measurements = SubSeq(buf, 1, f.born - emitted - 1)
                        /\ Last(estimates')[2] = g.x[1][1]
                   ELSE pc' = "propagate"]_vars

C24_Witness ==
    /\ pc = "prop" /\ event.op = "propnext"
    /\ fitters[cur_fitter].born = NumLayers
    /\ Len(estimates) = NumLayers + 2
    /\ fitters[cur_fitter].rev = FALSE /\ fitters[cur_fitter].A = KalA
    /\ Actual(fitters[cur_fitter].measurements) = 0

\* the candidates of fs that took a hit on layer l: spawned to the right of
\* it, with an entry for it that is not None
Accepted(fs, l) ==
    Cardinality({k \in 1..Len(fs) :
                    /\ fs[k].born > l
                    /\ Len(fs[k].measurements) >= fs[k].born - l + 1
                    /\ fs[k].measurements[fs[k].born - l + 1] # None})

\* C27: in a fit on a detector filled by propagate_track, on every layer the
\* candidates that accepted a measurement there and the candidates spawned
\* there together number the hits recorded on the layer.
C27_EveryHitUsedOnce ==
    [][(Spawning /\ pc' # "setup") =>
          LET l == SpawnLayer
          IN  /\ Accepted(fitters, l) + (Len(fitters') - Len(fitters)) = layer_hits[l]
              /\ Accepted(fitters', l) = Accepted(fitters, l)
              /\ \A k \in (Len(fitters) + 1)..Len(fitters') : fitters'[k].born = l]_vars

C27_Witness ==
    /\ event.op = "spawn" /\ event.layer = NumLayers - 1 /\ event.n = 1
    /\ Accepted(fitters, event.layer) = 1
    /\ Len(fitters) = 3

\* C28: after propagate_track, clear_hits and fit, the detector's hit counter
\* is the sum of its layers' counters and each layer's counter is the sum of
\* its strips' counters.
C28_CountersAddUp ==
    pc \in {"setup", "fitted"} =>
        /\ det_hits = SumTo(layer_hits, NumLayers)
        /\ \A l \in Layers : layer_hits[l] = SumTo(strip_hits[l], NumStrips)

\* C26: whatever is read and written, also through a row the caller got
\* hold of before T or I was last computed, mat.T and mat.I are the
\* transpose and the inverse of the current value.
C26_NeverStale ==
    /\ out.op = "T" => out.result = Transpose(mat.value)
    /\ out.op = "I" => out.result = MatI(mat.value)
    /\ out.op = "heldwrite" =>
            /\ mat.T # None => mat.T = Transpose(mat.value)
            /\ mat.I # None => mat.I = MatI(mat.value)

====
